---- MODULE Spec2Model ----
(***************************************************************************)
(* A model of src/main.cpp: the GStreamPipeline wrapper (a registry of     *)
(* named GStreamer elements with optional caps, a pairwise linker and the  *)
(* state setters), the pad-added callback onPadAdded and the program       *)
(* runSimplePipeline.                                                      *)
(*                                                                         *)
(* The GStreamer/GLib engine is not part of the repository.  Each engine   *)
(* call is modelled by its effect on a small engine state (elements,       *)
(* caps objects, links, pads) and its result is an input of the action     *)
(* that makes the call: the engine may accept or reject any creation,      *)
(* attachment, parse, link or state change.  Two facts of the engine are   *)
(* kept because the code relies on them: a pad has at most one peer, and   *)
(* an element with "sometimes" pads (rtspsrc) has no output pad until the  *)
(* engine adds one at run time.  A third is kept because it decides what a *)
(* repeated name does: a bin refuses a child whose name one of its         *)
(* children already has.  Every element is taken to have the one input pad *)
(* "sink" that onPadAdded asks for.                                        *)
(***************************************************************************)
EXTENDS Integers, Sequences, FiniteSets, TLC

\* ------------------------------------------------------------ bounds
MaxCreate == 2      \* addElement calls of the registry specification
MaxLink == 2        \* linkElementsByName calls of the linking specification
MaxPads == 2        \* pads the engine adds at run time
MaxSignals == 1     \* pad-added connections a caller makes

\* ------------------------------------------------------------ values
NULL == 0                       \* the null GstElement* / GstCaps*
Pipe == "RTSP_SERVER"           \* the GstPipeline made by the constructor
NoPipe == "NULL"                \* m_pipeline when gst_pipeline_new gave NULL
Loop == "GMainLoop"
Names == {"src", "decode", "sink"}
RunNames == {"rtspsrc", "videodepay", "h264parse", "videodecode", "videoscale",
             "videorate", "videoconvert", "videosink"}
AllNames == Names \cup RunNames
Factories == {"videoconvert"}   \* the factory a registry caller asks for
RegNames == {"src", "decode"}   \* the names a registry caller creates
Dynamic == {"rtspsrc"}          \* factories whose output pads appear at run time
GstStates == {"NULL", "PLAYING"}
StateChangeReturns == {"FAILURE", "SUCCESS", "ASYNC"}

VARIABLES
    m_pipeline_map,   \* name -> [first: element, second: caps]
    m_pipeline,       \* Pipe or NoPipe
    m_loop,           \* Loop
    elements,         \* engine: element id -> [name, factory, parent, alive]
    capsObjs,         \* engine: caps id -> [live, uses, unrefs]
    links,            \* engine: set of [src, pad, dst, caps]
    pads,             \* engine: run-time pad id -> owning element
    signals,          \* engine: pad-added connections, in connection order
    pipeState,        \* engine: the last state the pipeline accepted
    loopRunning,      \* g_main_loop_run has been entered
    last,             \* the last operation: its arguments, result and engine calls
    issued,           \* history: name -> number of addElement calls given it
    createdAs,        \* history: name -> element the engine last fully created for it
    cbLog,            \* history: the onPadAdded invocations
    nlink,            \* history: linkElementsByName calls so far
    pc,               \* runSimplePipeline's position (0 outside SpecRun)
    playRequested,    \* runSimplePipeline asked the pipeline to enter PLAYING
    setupFailed       \* runSimplePipeline had a create/link/signal call return false

object == <<m_pipeline_map, m_pipeline, m_loop>>
engine == <<elements, capsObjs, links, pads, signals, pipeState, loopRunning>>
history == <<issued, createdAs, cbLog, nlink>>
program == <<pc, playRequested, setupFailed>>
vars == <<object, engine, history, last, program>>

\* ------------------------------------------------------------ helpers
EmptyMap == [n \in {} |-> NULL]

gstream_pair(e, c) == [first |-> e, second |-> c]

\* m_pipeline_map[element_name] = pair
MapPut(map, element_name, pair) ==
    [n \in DOMAIN map \cup {element_name} |->
        IF n = element_name THEN pair ELSE map[n]]

\* one engine call, as logged in last.calls
Call(fn, a, b, c, ok) == [fn |-> fn, a |-> a, b |-> b, c |-> c, ok |-> ok]

Op(op, name, names, ret, elem, caps, calls) ==
    [op |-> op, name |-> name, names |-> names, ret |-> ret,
     elem |-> elem, caps |-> caps, child |-> NULL, calls |-> calls]

\* ------------------------------------------------------------ engine
GST_IS_ELEMENT(els, e) == e # NULL /\ els[e].alive

\* A caps pointer whose reference the program has dropped dangles: reading it
\* is undefined, and the type check may go either way (stale).
GST_IS_CAPS(cps, c, stale) == c # NULL /\ (cps[c].live \/ stale)

gst_element_factory_make(els, factory, name, makeOk) ==
    IF makeOk
    THEN [out |-> Len(els) + 1,
          elements |-> Append(els, [name |-> name, factory |-> factory,
                                    parent |-> NoPipe, alive |-> TRUE])]
    ELSE [out |-> NULL, elements |-> els]

\* gst_bin_add: a bin takes no child whose name one of its children has
NameTaken(els, pipe, name) ==
    \E o \in 1..Len(els) :
        els[o].alive /\ els[o].parent = pipe /\ els[o].name = name

gst_bin_add(els, pipe, e, attachOk) ==
    IF attachOk /\ ~NameTaken(els, pipe, els[e].name)
    THEN [ok |-> TRUE, elements |-> [els EXCEPT ![e].parent = pipe]]
    ELSE [ok |-> FALSE, elements |-> els]

gst_object_unref(els, e) == [els EXCEPT ![e].alive = FALSE]

gst_caps_from_string(cps, capsOk) ==
    IF capsOk
    THEN [out |-> Len(cps) + 1,
          capsObjs |-> Append(cps, [live |-> TRUE, uses |-> 0, unrefs |-> 0])]
    ELSE [out |-> NULL, capsObjs |-> cps]

gst_caps_unref(cps, c) ==
    [cps EXCEPT ![c].live = FALSE, ![c].unrefs = @ + 1]

SrcBusy(lks, a, p) == \E l \in lks : l.src = a /\ l.pad = p
SinkLinked(lks, b) == \E l \in lks : l.dst = b

\* The output pad gst_element_link takes on a: pad 0 of a static element, the
\* first free run-time pad of a dynamic one, -1 when it has none.
OutPad(els, pds, lks, a) ==
    IF els[a].factory \in Dynamic
    THEN LET free == {p \in 1..Len(pds) : pds[p] = a /\ ~SrcBusy(lks, a, p)}
         IN IF free = {} THEN -1 ELSE CHOOSE p \in free : \A q \in free : p <= q
    ELSE 0

\* gst_element_link / gst_element_link_filtered: c is the filter, NULL if none
gst_element_link(els, pds, lks, a, b, c, ok) ==
    LET p == OutPad(els, pds, lks, a)
        done == ok /\ p # -1 /\ ~SrcBusy(lks, a, p) /\ ~SinkLinked(lks, b)
    IN [ok |-> done,
        links |-> IF done
                  THEN lks \cup {[src |-> a, pad |-> p, dst |-> b, caps |-> c]}
                  ELSE lks]

\* gst_element_link_pads(element, pad, data, "sink")
gst_element_link_pads(lks, a, p, b, ok) ==
    LET done == ok /\ b # NULL /\ ~SrcBusy(lks, a, p) /\ ~SinkLinked(lks, b)
    IN [ok |-> done,
        links |-> IF done
                  THEN lks \cup {[src |-> a, pad |-> p, dst |-> b, caps |-> NULL]}
                  ELSE lks]

\* ------------------------------------------------------------ the class
\* createElement without the check of gst_bin_add's result (lines 85-89 left
\* out): the element is returned whether or not the pipeline took it.
createElementNoAttachCheck(els, element, element_name, pipe, makeOk, attachOk) ==
    IF pipe = NoPipe
    THEN [out |-> NULL, elements |-> els, calls |-> <<>>]
    ELSE LET made == gst_element_factory_make(els, element, element_name, makeOk)
             mk == Call("gst_element_factory_make", made.out, NULL, NULL, made.out # NULL)
         IN IF made.out = NULL
            THEN [out |-> NULL, elements |-> els, calls |-> <<mk>>]
            ELSE LET added == gst_bin_add(made.elements, pipe, made.out, attachOk)
                 IN [out |-> made.out, elements |-> added.elements,
                     calls |-> <<mk, Call("gst_bin_add", made.out, NULL, NULL, added.ok)>>]

createElement(els, element, element_name, pipe, makeOk, attachOk) ==
    IF pipe = NoPipe
    THEN [out |-> NULL, elements |-> els, calls |-> <<>>]
    ELSE LET made == gst_element_factory_make(els, element, element_name, makeOk)
             mk == Call("gst_element_factory_make", made.out, NULL, NULL, made.out # NULL)
         IN IF made.out = NULL
            THEN [out |-> NULL, elements |-> els, calls |-> <<mk>>]
            ELSE LET added == gst_bin_add(made.elements, pipe, made.out, attachOk)
                     ad == Call("gst_bin_add", made.out, NULL, NULL, added.ok)
                 IN IF ~added.ok
                    THEN [out |-> NULL,
                          elements |-> gst_object_unref(added.elements, made.out),
                          calls |-> <<mk, ad,
                                      Call("gst_object_unref", made.out, NULL, NULL, TRUE)>>]
                    ELSE [out |-> made.out, elements |-> added.elements,
                          calls |-> <<mk, ad>>]

\* The element the engine creates and attaches for this call, whatever the
\* wrapper then does with it (NULL when the engine does not).
EngineCreates(element_name, makeOk, attachOk) ==
    IF /\ m_pipeline # NoPipe /\ makeOk /\ attachOk
       /\ ~NameTaken(elements, m_pipeline, element_name)
    THEN Len(elements) + 1
    ELSE NULL

CreateHistory(element_name, full) ==
    /\ issued' = [issued EXCEPT ![element_name] = @ + 1]
    /\ createdAs' = [createdAs EXCEPT ![element_name] = IF full # NULL THEN full ELSE @]
    /\ UNCHANGED <<cbLog, nlink>>

\* addElement without the check of lines 127-131: whatever createElement
\* returned is stored and the call reports success
addElementNoCheck(element, element_name, makeOk, attachOk) ==
    LET ce == createElement(elements, element, element_name, m_pipeline, makeOk, attachOk)
    IN /\ elements' = ce.elements
       /\ m_pipeline_map' = MapPut(m_pipeline_map, element_name,
                                   gstream_pair(ce.out, NULL))
       /\ last' = Op("addElement", element_name, <<>>, TRUE, ce.out, NULL, ce.calls)
       /\ CreateHistory(element_name, EngineCreates(element_name, makeOk, attachOk))
       /\ UNCHANGED <<m_pipeline, m_loop, capsObjs, links, pads, signals,
                      pipeState, loopRunning>>

\* bool addElement(element, element_name)
addElement(element, element_name, makeOk, attachOk) ==
    LET ce == createElement(elements, element, element_name, m_pipeline, makeOk, attachOk)
        ok == GST_IS_ELEMENT(ce.elements, ce.out)
    IN /\ elements' = ce.elements
       /\ m_pipeline_map' = IF ok
                            THEN MapPut(m_pipeline_map, element_name,
                                        gstream_pair(ce.out, NULL))
                            ELSE m_pipeline_map
       /\ last' = Op("addElement", element_name, <<>>, ok, ce.out, NULL, ce.calls)
       /\ CreateHistory(element_name, EngineCreates(element_name, makeOk, attachOk))
       /\ UNCHANGED <<m_pipeline, m_loop, capsObjs, links, pads, signals,
                      pipeState, loopRunning>>

\* addElement(element, element_name, element_caps) returning before the
\* store of line 155.
addElementCapsNoStore(element, element_name, makeOk, attachOk, capsOk) ==
    LET ce == createElement(elements, element, element_name, m_pipeline, makeOk, attachOk)
        cp == gst_caps_from_string(capsObjs, capsOk)
    IN /\ elements' = ce.elements
       /\ capsObjs' = cp.capsObjs
       /\ m_pipeline_map' = m_pipeline_map
       /\ last' = Op("addElementCaps", element_name, <<>>, FALSE, ce.out, cp.out,
                     Append(ce.calls, Call("gst_caps_from_string", NULL, NULL, cp.out,
                                           cp.out # NULL)))
       /\ CreateHistory(element_name,
                        IF capsOk THEN EngineCreates(element_name, makeOk, attachOk) ELSE NULL)
       /\ UNCHANGED <<m_pipeline, m_loop, links, pads, signals, pipeState, loopRunning>>

\* bool addElement(element, element_name, element_caps)
addElementCaps(element, element_name, makeOk, attachOk, capsOk) ==
    LET ce == createElement(elements, element, element_name, m_pipeline, makeOk, attachOk)
        cp == gst_caps_from_string(capsObjs, capsOk)
        calls == Append(ce.calls,
                        Call("gst_caps_from_string", NULL, NULL, cp.out, cp.out # NULL))
        okE == GST_IS_ELEMENT(ce.elements, ce.out)
        okC == GST_IS_CAPS(cp.capsObjs, cp.out, FALSE)
        ret == FALSE     \* every return of this overload, the last one included
    IN /\ elements' = ce.elements
       /\ capsObjs' = cp.capsObjs
       /\ m_pipeline_map' = IF okE /\ okC
                            THEN MapPut(m_pipeline_map, element_name,
                                        gstream_pair(ce.out, cp.out))
                            ELSE m_pipeline_map
       /\ last' = Op("addElementCaps", element_name, <<>>, ret, ce.out, cp.out, calls)
       /\ CreateHistory(element_name,
                        IF capsOk THEN EngineCreates(element_name, makeOk, attachOk) ELSE NULL)
       /\ UNCHANGED <<m_pipeline, m_loop, links, pads, signals, pipeState, loopRunning>>

\* GstElement* getElementByName(element_name)
Lookup(map, element_name) ==
    IF element_name \in DOMAIN map THEN map[element_name].first ELSE NULL

\* getElementByName erasing the entry it returns
getElementByNameErases(element_name) ==
    /\ m_pipeline_map' = [n \in DOMAIN m_pipeline_map \ {element_name} |->
                              m_pipeline_map[n]]
    /\ last' = Op("getElementByName", element_name, <<>>, TRUE,
                  Lookup(m_pipeline_map, element_name), NULL, <<>>)
    /\ UNCHANGED <<m_pipeline, m_loop, engine, history>>

getElementByName(element_name) ==
    /\ last' = Op("getElementByName", element_name, <<>>, TRUE,
                  Lookup(m_pipeline_map, element_name), NULL, <<>>)
    /\ UNCHANGED <<object, engine, history>>

\* ------------------------------------------------------------ linking
\* The type check of a caps pointer can go either way only when it dangles.
StaleChoices(cps, c) == IF c # NULL /\ ~cps[c].live THEN BOOLEAN ELSE {FALSE}

LinkState(cps, lks, calls, ret) ==
    [capsObjs |-> cps, links |-> lks, calls |-> calls, ret |-> ret]

\* the filtered link without the gst_caps_unref of line 54: the filter is
\* released only when the link succeeds
linkFilteredKeepsOnFailure(els, pds, st, element, caps, child_element, ok) ==
    LET lk == gst_element_link(els, pds, st.links, element, child_element, caps, ok)
        used == [st.capsObjs EXCEPT ![caps].uses = @ + 1]
        lc == Call("gst_element_link_filtered", element, child_element, caps, lk.ok)
    IN IF lk.ok
       THEN LinkState(gst_caps_unref(used, caps), lk.links,
                      st.calls \o <<lc, Call("gst_caps_unref", NULL, NULL, caps, TRUE)>>,
                      TRUE)
       ELSE LinkState(used, lk.links, Append(st.calls, lc), FALSE)

\* lines 48-60: the filtered link, and the release of the filter either way
linkFiltered(els, pds, st, element, caps, child_element, ok) ==
    LET lk == gst_element_link(els, pds, st.links, element, child_element, caps, ok)
        used == [st.capsObjs EXCEPT ![caps].uses = @ + 1]
    IN LinkState(gst_caps_unref(used, caps), lk.links,
                 st.calls \o <<Call("gst_element_link_filtered", element,
                                    child_element, caps, lk.ok),
                               Call("gst_caps_unref", NULL, NULL, caps, TRUE)>>,
                 lk.ok)

\* the plain link without the return false of line 64
linkPlainReturnsTrue(els, pds, st, element, child_element, ok) ==
    LET lk == gst_element_link(els, pds, st.links, element, child_element, NULL, ok)
    IN LinkState(st.capsObjs, lk.links,
                 Append(st.calls, Call("gst_element_link", element, child_element,
                                       NULL, lk.ok)),
                 TRUE)

\* lines 61-66: the plain link
linkPlain(els, pds, st, element, child_element, ok) ==
    LET lk == gst_element_link(els, pds, st.links, element, child_element, NULL, ok)
    IN LinkState(st.capsObjs, lk.links,
                 Append(st.calls, Call("gst_element_link", element, child_element,
                                       NULL, lk.ok)),
                 lk.ok)

\* linkElement without the check of child_element (lines 43-47 left out)
linkElementNoChildCheck(els, pds, st, element, caps, child_element) ==
    IF ~GST_IS_ELEMENT(els, element) THEN {[st EXCEPT !.ret = FALSE]}
    ELSE UNION {
        IF GST_IS_CAPS(st.capsObjs, caps, stale)
        THEN {linkFiltered(els, pds, st, element, caps, child_element, ok) :
                 ok \in BOOLEAN}
        ELSE {linkPlain(els, pds, st, element, child_element, ok) : ok \in BOOLEAN}
        : stale \in StaleChoices(st.capsObjs, caps)}

\* bool linkElement(element, caps, child_element, ...): the set of outcomes,
\* one per answer of the engine
linkElement(els, pds, st, element, caps, child_element) ==
    IF ~GST_IS_ELEMENT(els, element) THEN {[st EXCEPT !.ret = FALSE]}
    ELSE IF ~GST_IS_ELEMENT(els, child_element) THEN {[st EXCEPT !.ret = FALSE]}
    ELSE UNION {
        IF GST_IS_CAPS(st.capsObjs, caps, stale)
        THEN {linkFiltered(els, pds, st, element, caps, child_element, ok) :
                 ok \in BOOLEAN}
        ELSE {linkPlain(els, pds, st, element, child_element, ok) : ok \in BOOLEAN}
        : stale \in StaleChoices(st.capsObjs, caps)}

\* one call of linkElement on its own, with the handles it is given
linkElementCall(element, caps, child_element) ==
    \E r \in linkElement(elements, pads, LinkState(capsObjs, links, <<>>, TRUE),
                         element, caps, child_element) :
        /\ capsObjs' = r.capsObjs
        /\ links' = r.links
        /\ last' = [Op("linkElement", "", <<>>, r.ret, element, caps, r.calls)
                        EXCEPT !.child = child_element]
        /\ nlink' = nlink + 1
        /\ UNCHANGED <<object, elements, pads, signals, pipeState, loopRunning,
                       issued, createdAs, cbLog>>

\* the caps argument of line 187 taken from the child's entry instead
linkCapsOfChild(parent_pair, child_pair) == child_pair.second

\* the caps linkElementsByName hands to linkElement for a pair (line 187)
linkCaps(parent_pair, child_pair) == parent_pair.second

\* the loop of linkElementsByName from position i on
RECURSIVE linkLoop(_, _, _, _, _, _)
linkLoop(map, els, pds, element_names, i, st) ==
    IF i > Len(element_names) \/ i + 1 > Len(element_names)
    THEN {[st EXCEPT !.ret = TRUE]}
    ELSE IF element_names[i] \notin DOMAIN map THEN {[st EXCEPT !.ret = FALSE]}
    ELSE IF element_names[i + 1] \notin DOMAIN map THEN {[st EXCEPT !.ret = FALSE]}
    ELSE LET parent_pair == map[element_names[i]]
             child_pair == map[element_names[i + 1]]
         IN UNION {
             IF r.ret THEN linkLoop(map, els, pds, element_names, i + 1, r) ELSE {r}
             : r \in linkElement(els, pds, st, parent_pair.first,
                                 linkCaps(parent_pair, child_pair),
                                 child_pair.first)}

\* linkElementsByName refusing a list that holds no pair
linkElementsByNameNeedsPair(element_names) ==
    \E r \in (IF Len(element_names) < 2
               THEN {LinkState(capsObjs, links, <<>>, FALSE)}
               ELSE linkLoop(m_pipeline_map, elements, pads, element_names, 1,
                             LinkState(capsObjs, links, <<>>, TRUE))) :
        /\ capsObjs' = r.capsObjs
        /\ links' = r.links
        /\ last' = Op("linkElementsByName", "", element_names, r.ret, NULL, NULL, r.calls)
        /\ nlink' = nlink + 1
        /\ UNCHANGED <<object, elements, pads, signals, pipeState, loopRunning,
                       issued, createdAs, cbLog>>

\* bool linkElementsByName(element_names)
linkElementsByName(element_names) ==
    \E r \in linkLoop(m_pipeline_map, elements, pads, element_names, 1,
                      LinkState(capsObjs, links, <<>>, TRUE)) :
        /\ capsObjs' = r.capsObjs
        /\ links' = r.links
        /\ last' = Op("linkElementsByName", "", element_names, r.ret, NULL, NULL, r.calls)
        /\ nlink' = nlink + 1
        /\ UNCHANGED <<object, elements, pads, signals, pipeState, loopRunning,
                       issued, createdAs, cbLog>>

\* ------------------------------------------------------------ configuration
\* bool setElementSignal(element_name, "pad-added", onPadAdded, user_data)
setElementSignal(element_name, user_data) ==
    LET found == element_name \in DOMAIN m_pipeline_map
        element == Lookup(m_pipeline_map, element_name)
        ok == found /\ GST_IS_ELEMENT(elements, element)
    IN /\ signals' = IF ok
                     THEN Append(signals, [src |-> element, data |-> user_data])
                     ELSE signals
       /\ last' = Op("setElementSignal", element_name, <<>>, ok, element, NULL,
                     IF ok THEN <<Call("g_signal_connect", element, user_data, NULL, TRUE)>>
                     ELSE <<>>)
       /\ UNCHANGED <<object, elements, capsObjs, links, pads, pipeState, loopRunning,
                      history>>

\* bool setElementProperty(element_name, property_name, property_value)
setElementProperty(element_name) ==
    LET found == element_name \in DOMAIN m_pipeline_map
        element == Lookup(m_pipeline_map, element_name)
        ok == found /\ GST_IS_ELEMENT(elements, element)
    IN /\ last' = Op("setElementProperty", element_name, <<>>, ok, element, NULL,
                     IF ok THEN <<Call("g_object_set", element, NULL, NULL, TRUE)>>
                     ELSE <<>>)
       /\ UNCHANGED <<object, engine, history>>

\* gst_element_set_state on a null element is refused by the engine's own check
gst_element_set_state(target, res) == IF target = NoPipe THEN "FAILURE" ELSE res

\* setElementState without the lookup check of lines 260-261
setElementStateNoFind(element_name, state, res) ==
    LET element == Lookup(m_pipeline_map, element_name)
    IN /\ last' = Op("setElementState", element_name, <<>>,
                     res # "FAILURE", element, NULL,
                     <<Call("gst_element_set_state", element, res, NULL,
                            res # "FAILURE")>>)
       /\ UNCHANGED <<object, engine, history>>

\* bool setElementState(element_name, state)
setElementState(element_name, state, res) ==
    LET found == element_name \in DOMAIN m_pipeline_map
        element == Lookup(m_pipeline_map, element_name)
    IN /\ last' = Op("setElementState", element_name, <<>>,
                     found /\ res # "FAILURE", element, NULL,
                     IF found
                     THEN <<Call("gst_element_set_state", element, res, NULL,
                                 res # "FAILURE")>>
                     ELSE <<>>)
       /\ UNCHANGED <<object, engine, history>>

\* setPipelineState comparing with GST_STATE_CHANGE_SUCCESS instead: a
\* transition that completes asynchronously is reported as a failure
setPipelineStateSyncOnly(state, res) ==
    LET got == gst_element_set_state(m_pipeline, res)
    IN /\ pipeState' = IF got # "FAILURE" THEN state ELSE pipeState
       /\ last' = Op("setPipelineState", "", <<state>>, got = "SUCCESS", NULL, NULL,
                     <<Call("gst_element_set_state", NULL, got, NULL, got # "FAILURE")>>)
       /\ UNCHANGED <<object, elements, capsObjs, links, pads, signals, loopRunning,
                      history>>

\* bool setPipelineState(state)
setPipelineState(state, res) ==
    LET got == gst_element_set_state(m_pipeline, res)
    IN /\ pipeState' = IF got # "FAILURE" THEN state ELSE pipeState
       /\ last' = Op("setPipelineState", "", <<state>>, got # "FAILURE", NULL, NULL,
                     <<Call("gst_element_set_state", NULL, got, NULL, got # "FAILURE")>>)
       /\ UNCHANGED <<object, elements, capsObjs, links, pads, signals, loopRunning,
                      history>>

\* void runMainLoop(): g_main_loop_run blocks the calling thread
runMainLoop ==
    /\ loopRunning' = TRUE
    /\ last' = Op("runMainLoop", "", <<>>, TRUE, NULL, NULL,
                  <<Call("g_main_loop_run", NULL, NULL, NULL, TRUE)>>)
    /\ UNCHANGED <<object, elements, capsObjs, links, pads, signals, pipeState, history>>

\* ------------------------------------------------------------ the callback
\* onPadAdded without the gst_pad_is_linked check of lines 297-301
onPadAddedNoCheck(lks, element, pad, data, ok) ==
    LET lk == gst_element_link_pads(lks, element, pad, data, ok)
    IN [links |-> lk.links,
        entry |-> [src |-> element, pad |-> pad, data |-> data,
                   attempted |-> TRUE, linked |-> lk.ok]]

\* static void onPadAdded(element, pad, data): the links afterwards and the
\* record of the invocation.  A null data makes gst_element_get_static_pad
\* return NULL, which gst_pad_is_linked reports as not linked.
onPadAdded(lks, element, pad, data, ok) ==
    IF data # NULL /\ SinkLinked(lks, data)
    THEN [links |-> lks,
          entry |-> [src |-> element, pad |-> pad, data |-> data,
                     attempted |-> FALSE, linked |-> FALSE]]
    ELSE LET lk == gst_element_link_pads(lks, element, pad, data, ok)
         IN [links |-> lk.links,
             entry |-> [src |-> element, pad |-> pad, data |-> data,
                        attempted |-> TRUE, linked |-> lk.ok]]

\* g_signal_emit of pad-added on element: the handlers connected to it run
\* one after the other, in connection order, from connection k on
RECURSIVE emitPadAdded(_, _, _, _, _)
emitPadAdded(sigs, element, pad, k, st) ==
    IF k > Len(sigs) THEN {st}
    ELSE IF sigs[k].src # element THEN emitPadAdded(sigs, element, pad, k + 1, st)
    ELSE UNION {
        LET r == onPadAdded(st.links, element, pad, sigs[k].data, ok)
        IN emitPadAdded(sigs, element, pad, k + 1,
                        [links |-> r.links, log |-> Append(st.log, r.entry)])
        : ok \in BOOLEAN}

\* The engine adds a run-time pad to a dynamic element of the running
\* pipeline and emits pad-added.
PadAdded(element) ==
    /\ Len(pads) < MaxPads
    /\ pipeState \in {"PAUSED", "PLAYING"}
    /\ elements[element].alive
    /\ elements[element].parent = m_pipeline
    /\ elements[element].factory \in Dynamic
    /\ pads' = Append(pads, element)
    /\ \E r \in emitPadAdded(signals, element, Len(pads) + 1, 1,
                             [links |-> links, log |-> <<>>]) :
           /\ links' = r.links
           /\ cbLog' = cbLog \o r.log
           /\ last' = Op("onPadAdded", "", <<>>, TRUE, element, NULL, <<>>)
    /\ UNCHANGED <<object, elements, capsObjs, signals, pipeState, loopRunning,
                   issued, createdAs, nlink>>

\* ------------------------------------------------------------ specifications
InitObject ==
    /\ m_pipeline_map = EmptyMap
    /\ m_pipeline \in {Pipe, NoPipe}
    /\ m_loop = Loop
    /\ elements = <<>>
    /\ capsObjs = <<>>
    /\ links = {}
    /\ pads = <<>>
    /\ signals = <<>>
    /\ pipeState = "NULL"
    /\ loopRunning = FALSE
    /\ last = Op("GStreamPipeline", "", <<>>, TRUE, NULL, NULL, <<>>)
    /\ issued = [n \in AllNames |-> 0]
    /\ createdAs = [n \in AllNames |-> NULL]
    /\ cbLog = <<>>
    /\ nlink = 0
    /\ playRequested = FALSE
    /\ setupFailed = FALSE

\* Registry: a caller issues the operations on the registry and the state
\* setters in any order until it enters the main loop.  It creates under two
\* of the three names it asks about.
Init == InitObject /\ pc = 0

\* the number of addElement calls so far
Creates == issued["src"] + issued["decode"] + issued["sink"]

CallAddElement ==
    /\ ~loopRunning /\ Creates < MaxCreate
    /\ \E element \in Factories, element_name \in RegNames, makeOk, attachOk \in BOOLEAN :
           addElement(element, element_name, makeOk, attachOk)
    /\ UNCHANGED program

CallAddElementCaps ==
    /\ ~loopRunning /\ Creates < MaxCreate
    /\ \E element \in Factories, element_name \in RegNames,
          makeOk, attachOk, capsOk \in BOOLEAN :
           addElementCaps(element, element_name, makeOk, attachOk, capsOk)
    /\ UNCHANGED program

CallGetElementByName ==
    /\ ~loopRunning
    /\ \E element_name \in Names : getElementByName(element_name)
    /\ UNCHANGED program

CallSetElementProperty ==
    /\ ~loopRunning
    /\ \E element_name \in Names : setElementProperty(element_name)
    /\ UNCHANGED program

CallSetElementSignal ==
    /\ ~loopRunning /\ Len(signals) < MaxSignals
    /\ \E element_name \in Names : setElementSignal(element_name, NULL)
    /\ UNCHANGED program

CallSetElementState ==
    /\ ~loopRunning
    /\ \E element_name \in Names, state \in GstStates, res \in StateChangeReturns :
           setElementState(element_name, state, res)
    /\ UNCHANGED program

CallSetPipelineState ==
    /\ ~loopRunning
    /\ \E state \in GstStates, res \in StateChangeReturns : setPipelineState(state, res)
    /\ UNCHANGED program

CallRunMainLoop ==
    /\ ~loopRunning
    /\ runMainLoop
    /\ UNCHANGED program

Next ==
    \/ CallAddElement
    \/ CallAddElementCaps
    \/ CallGetElementByName
    \/ CallSetElementProperty
    \/ CallSetElementSignal
    \/ CallSetElementState
    \/ CallSetPipelineState
    \/ CallRunMainLoop

Spec == Init /\ [][Next]_vars

\* Linking: a caller creates the stages src, decode and sink in that order
\* (the engine accepting each), stops creating at any point, and from then on
\* links name lists, connects onPadAdded, sets the pipeline state and enters
\* the main loop; the engine adds pads while the pipeline plays.
CreateOrder == <<"src", "decode", "sink">>
SrcFactories == {"rtspsrc", "videotestsrc"}
LinkArgs ==
    {<<>>, <<"src">>, <<"decode">>, <<"src", "decode">>, <<"decode", "sink">>,
     <<"src", "decode", "sink">>}

Creating ==
    /\ nlink = 0 /\ signals = <<>> /\ pipeState = "NULL" /\ ~loopRunning
    /\ last.op \in {"GStreamPipeline", "addElement", "addElementCaps"}

LinkAddSrc ==
    /\ Creating /\ issued["src"] = 0
    /\ \E element \in SrcFactories : addElement(element, "src", TRUE, TRUE)
    /\ UNCHANGED program

LinkAddDecode ==
    /\ Creating /\ issued["src"] = 1 /\ issued["decode"] = 0
    /\ \/ addElement("videoconvert", "decode", TRUE, TRUE)
       \/ addElementCaps("videoconvert", "decode", TRUE, TRUE, TRUE)
    /\ UNCHANGED program

LinkAddSink ==
    /\ Creating /\ issued["decode"] = 1 /\ issued["sink"] = 0
    /\ addElement("autovideosink", "sink", TRUE, TRUE)
    /\ UNCHANGED program

CallLinkElementsByName ==
    /\ ~loopRunning /\ nlink < MaxLink
    /\ \E element_names \in LinkArgs : linkElementsByName(element_names)
    /\ UNCHANGED program

\* a connection the caller has not made yet
NewConnection(element_name, user_data) ==
    \A k \in 1..Len(signals) :
        signals[k] # [src |-> Lookup(m_pipeline_map, element_name), data |-> user_data]

LinkSetElementSignal ==
    /\ ~loopRunning /\ Len(signals) < MaxSignals
    /\ \E target \in {"decode", "sink"} :
           /\ NewConnection("src", Lookup(m_pipeline_map, target))
           /\ setElementSignal("src", Lookup(m_pipeline_map, target))
    /\ UNCHANGED program

EnginePadAdded ==
    /\ \E element \in 1..Len(elements) : PadAdded(element)
    /\ UNCHANGED program

NextLink ==
    \/ LinkAddSrc
    \/ LinkAddDecode
    \/ LinkAddSink
    \/ CallLinkElementsByName
    \/ LinkSetElementSignal
    \/ CallSetPipelineState
    \/ CallRunMainLoop
    \/ EnginePadAdded

SpecLink == Init /\ [][NextLink]_vars

\* The whole interface: a caller of the linking specification whose first
\* create may be one the engine refuses, and who reads and configures the
\* registry as well.  The reading and configuring calls touch neither links
\* nor pads, so they are made before the first link call and connection.
AllCreateRefused ==
    /\ last.op = "GStreamPipeline"
    /\ \/ \E makeOk, attachOk \in BOOLEAN :
             /\ ~(makeOk /\ attachOk)
             /\ addElement("videoconvert", "decode", makeOk, attachOk)
       \/ \E makeOk, attachOk, capsOk \in BOOLEAN :
             /\ ~(makeOk /\ attachOk /\ capsOk)
             /\ addElementCaps("videoconvert", "decode", makeOk, attachOk, capsOk)
    /\ UNCHANGED program

AllConfigure ==
    /\ nlink = 0 /\ signals = <<>> /\ pads = <<>>
    /\ \/ CallGetElementByName
       \/ CallSetElementProperty
       \/ CallSetElementState

NextAll ==
    \/ NextLink
    \/ AllCreateRefused
    \/ AllConfigure

SpecAll == Init /\ [][NextAll]_vars

\* The pair linker on its own: after the stages are created (the first
\* create possibly refused), linkElement is given any two handles the engine
\* knows, null, dead and live, with any caps or none, and linkElementsByName
\* is given name lists.
Handles == 0..Len(elements)
CapsHandles == 0..Len(capsObjs)

PairLinkElement ==
    /\ ~loopRunning /\ nlink < MaxLink
    /\ \E element, child_element \in Handles, caps \in CapsHandles :
           linkElementCall(element, caps, child_element)
    /\ UNCHANGED program

NextPair ==
    \/ LinkAddSrc
    \/ LinkAddDecode
    \/ LinkAddSink
    \/ AllCreateRefused
    \/ CallLinkElementsByName
    \/ PairLinkElement

SpecPair == Init /\ [][NextPair]_vars

\* runSimplePipeline: the calls of lines 309-327 in program order, every
\* return value ignored.
InitRun == InitObject /\ pc = 1

AddScript ==
    <<[element |-> "rtspsrc", name |-> "rtspsrc"],
      [element |-> "rtph264depay", name |-> "videodepay"],
      [element |-> "h264parse", name |-> "h264parse"],
      [element |-> "avdec_h264", name |-> "videodecode"],
      [element |-> "videoscale", name |-> "videoscale"],
      [element |-> "videorate", name |-> "videorate"],
      [element |-> "videoconvert", name |-> "videoconvert"],
      [element |-> "autovideosink", name |-> "videosink"]>>

LinkScript ==
    <<"videodepay", "h264parse", "videodecode", "videoscale", "videorate",
      "videoconvert", "videosink">>

RunAddElement ==
    /\ pc \in (1..6) \cup {8}
    /\ \E makeOk, attachOk \in BOOLEAN :
           addElement(AddScript[pc].element, AddScript[pc].name, makeOk, attachOk)
    /\ pc' = pc + 1
    /\ setupFailed' = (setupFailed \/ ~last'.ret)
    /\ UNCHANGED playRequested

RunAddElementCaps ==
    /\ pc = 7
    /\ \E makeOk, attachOk, capsOk \in BOOLEAN :
           addElementCaps(AddScript[pc].element, AddScript[pc].name,
                          makeOk, attachOk, capsOk)
    /\ pc' = pc + 1
    /\ setupFailed' = (setupFailed \/ ~last'.ret)
    /\ UNCHANGED playRequested

RunSetElementProperty ==
    /\ pc \in 9..11
    /\ setElementProperty("rtspsrc")
    /\ pc' = pc + 1
    /\ UNCHANGED <<playRequested, setupFailed>>

RunLinkElementsByName ==
    /\ pc = 12
    /\ linkElementsByName(LinkScript)
    /\ pc' = pc + 1
    /\ setupFailed' = (setupFailed \/ ~last'.ret)
    /\ UNCHANGED playRequested

RunSetElementSignal ==
    /\ pc = 13
    /\ setElementSignal("rtspsrc", Lookup(m_pipeline_map, "videodepay"))
    /\ pc' = pc + 1
    /\ setupFailed' = (setupFailed \/ ~last'.ret)
    /\ UNCHANGED playRequested

\* runSimplePipeline with the call of line 326 moved before the
\* linkElementsByName call of line 322
RunSetPipelineStateBeforeLink ==
    /\ pc = 12 /\ ~playRequested
    /\ \E res \in StateChangeReturns : setPipelineState("PLAYING", res)
    /\ pc' = pc
    /\ playRequested' = TRUE
    /\ UNCHANGED setupFailed

RunSetPipelineState ==
    /\ pc = 14
    /\ \E res \in StateChangeReturns : setPipelineState("PLAYING", res)
    /\ pc' = pc + 1
    /\ playRequested' = TRUE
    /\ UNCHANGED setupFailed

RunMainLoop ==
    /\ pc = 15
    /\ runMainLoop
    /\ pc' = pc + 1
    /\ UNCHANGED <<playRequested, setupFailed>>

NextRun ==
    \/ RunAddElement
    \/ RunAddElementCaps
    \/ RunSetElementProperty
    \/ RunLinkElementsByName
    \/ RunSetElementSignal
    \/ RunSetPipelineState
    \/ RunMainLoop
    \/ EnginePadAdded

SpecRun == InitRun /\ [][NextRun]_vars

\* ------------------------------------------------------------ properties
\* whether the last operation made the engine call fn and the engine accepted
EngineOk(fn) == \E k \in 1..Len(last.calls) : last.calls[k].fn = fn /\ last.calls[k].ok

IsLinkCall(c) == c.fn \in {"gst_element_link", "gst_element_link_filtered"}

\* the link attempts of the last operation, in the order they were made
LinkAttempts == SelectSeq(last.calls, IsLinkCall)

Registered(names) == \A i \in 1..Len(names) : names[i] \in DOMAIN m_pipeline_map

\* C1: addElement with a caps string reports success exactly when the engine
\* created the element, attached it and parsed the caps, and then the registry
\* holds the new element with the parsed caps under the name.
C1_CreateWithFilterReportsSuccess ==
    last.op = "addElementCaps" =>
        LET allOk == /\ EngineOk("gst_element_factory_make")
                     /\ EngineOk("gst_bin_add")
                     /\ EngineOk("gst_caps_from_string")
        IN /\ last.ret <=> allOk
           /\ allOk => /\ last.name \in DOMAIN m_pipeline_map
                       /\ m_pipeline_map[last.name] = gstream_pair(last.elem, last.caps)

\* C2: a create call that returns false leaves the registry as it was, leaves
\* no element it created attached to the pipeline, and leaves no caps it
\* parsed alive outside the registry.
C2_FailedCreateKeepsNothing ==
    [][(issued' # issued /\ ~last'.ret) =>
          /\ m_pipeline_map' = m_pipeline_map
          /\ \A e \in (Len(elements) + 1)..Len(elements') :
                ~(elements'[e].alive /\ elements'[e].parent = m_pipeline)
          /\ \A c \in (Len(capsObjs) + 1)..Len(capsObjs') :
                capsObjs'[c].live =>
                    \E n \in DOMAIN m_pipeline_map' : m_pipeline_map'[n].second = c]_vars

\* C3: every caps object is used in at most one link attempt, is released at
\* most once, and at most one link is made from it.
C3_FilterConsumedAtMostOnce ==
    \A c \in 1..Len(capsObjs) :
        /\ capsObjs[c].uses <= 1
        /\ capsObjs[c].unrefs <= 1
        /\ Cardinality({l \in links : l.caps = c}) <= 1

\* C4: after linkElementsByName over registered names, the attempts made are
\* the pairs (names[k], names[k+1]) for k = 1, 2, ... in that order; only the
\* last attempt can have failed; a failed attempt makes the call return false;
\* with no failed attempt there are exactly N-1 attempts and the call returns
\* true; every successful attempt's link is in place.
C4_LinkSequenceStopsAtFirstFailure ==
    (last.op = "linkElementsByName" /\ Registered(last.names)) =>
        LET names == last.names
            attempts == LinkAttempts
            failed == \E k \in 1..Len(attempts) : ~attempts[k].ok
        IN /\ Len(attempts) < Len(names) \/ (names = <<>> /\ attempts = <<>>)
           /\ \A k \in 1..Len(attempts) :
                /\ attempts[k].a = m_pipeline_map[names[k]].first
                /\ attempts[k].b = m_pipeline_map[names[k + 1]].first
                /\ k < Len(attempts) => attempts[k].ok
                /\ attempts[k].ok =>
                      \E l \in links : l.src = attempts[k].a /\ l.dst = attempts[k].b
           /\ failed => ~last.ret
           /\ ~failed => (last.ret /\ (names # <<>> => Len(attempts) = Len(names) - 1))

\* a three-name call whose first pair linked and whose second pair failed
C4_Witness ==
    /\ last.op = "linkElementsByName" /\ Registered(last.names)
    /\ Len(last.names) = 3
    /\ Len(LinkAttempts) = 2
    /\ LinkAttempts[1].ok /\ ~LinkAttempts[2].ok
    /\ ~last.ret
    /\ \E l \in links : l.src = LinkAttempts[1].a /\ l.dst = LinkAttempts[1].b

\* C5: once a create, link or signal call of runSimplePipeline has returned
\* false, the pipeline is not asked to play and the main loop is not entered.
C5_SetupFailureHaltsConstruction ==
    setupFailed => (~playRequested /\ ~loopRunning)

\* C6: when no name was given to addElement twice, getElementByName returns,
\* for a name the engine fully created an element for, that element, and NULL
\* for every other name, a name never given to addElement among them.
C6_LookupAfterDistinctCreates ==
    (last.op = "getElementByName" /\ \A n \in Names : issued[n] <= 1) =>
        /\ last.elem = createdAs[last.name]
        /\ issued[last.name] = 0 => last.elem = NULL

\* a lookup that returned the element of a name created with caps while a
\* name created without caps is registered too
C6_Witness ==
    /\ last.op = "getElementByName" /\ \A n \in Names : issued[n] <= 1
    /\ last.elem # NULL
    /\ m_pipeline_map[last.name].second # NULL
    /\ \E n \in DOMAIN m_pipeline_map : m_pipeline_map[n].second = NULL

\* C7: every registry entry holds an element the engine created, that is
\* alive, and whose parent is this pipeline.
C7_RegistryHoldsValidHandles ==
    \A n \in DOMAIN m_pipeline_map :
        LET e == m_pipeline_map[n].first
        IN /\ e \in 1..Len(elements)
           /\ elements[e].alive
           /\ m_pipeline # NoPipe
           /\ elements[e].parent = m_pipeline

\* an element is registered, and the engine refused to attach another one
C7_Witness ==
    /\ DOMAIN m_pipeline_map # {}
    /\ \E e \in 1..Len(elements) : ~elements[e].alive

\* two invocations of onPadAdded for two pads of one source and one target
SamePair(i, j) ==
    /\ i < j
    /\ cbLog[i].data # NULL
    /\ cbLog[i].src = cbLog[j].src
    /\ cbLog[i].data = cbLog[j].data
    /\ cbLog[i].pad # cbLog[j].pad

FirstOfPair(i) ==
    \A h \in 1..(i - 1) :
        ~(cbLog[h].src = cbLog[i].src /\ cbLog[h].data = cbLog[i].data)

OnlyLinkInto(i) ==
    {l \in links : l.dst = cbLog[i].data} =
        {[src |-> cbLog[i].src, pad |-> cbLog[i].pad, dst |-> cbLog[i].data,
          caps |-> NULL]}

SrcDecodeSinkCall ==
    /\ last.op = "linkElementsByName"
    /\ last.names = <<"src", "decode", "sink">>
    /\ Registered(last.names)
    /\ elements[m_pipeline_map["src"].first].factory \in Dynamic
    /\ \A p \in 1..Len(pads) : pads[p] # m_pipeline_map["src"].first

LinkedByName(a, b) ==
    \E l \in links : l.src = m_pipeline_map[a].first /\ l.dst = m_pipeline_map[b].first

\* C10 as stated: the call succeeds, leaves src-to-decode for later and links
\* decode to sink at once.
C10_DefersDynamicLink ==
    SrcDecodeSinkCall =>
        /\ last.ret
        /\ ~LinkedByName("src", "decode")
        /\ LinkedByName("decode", "sink")

\* C10 amended: the call attempts src-to-decode at once, the engine rejects
\* it, and the call returns false without attempting decode-to-sink; src is
\* not linked to decode.
C10_DynamicLinkFailsAtOnce ==
    SrcDecodeSinkCall =>
        /\ ~last.ret
        /\ Len(LinkAttempts) = 1
        /\ LinkAttempts[1].a = m_pipeline_map["src"].first
        /\ LinkAttempts[1].b = m_pipeline_map["decode"].first
        /\ ~LinkAttempts[1].ok
        /\ ~LinkedByName("src", "decode")

C10_Witness == SrcDecodeSinkCall /\ ~last.ret

\* the gst_caps_unref calls of caps c among the engine calls of an operation
Releases(calls, c) ==
    Cardinality({k \in 1..Len(calls) : calls[k].fn = "gst_caps_unref" /\ calls[k].c = c})

\* C11: in a linkElementsByName step, every pair that reaches linkElement with
\* two valid elements and a live caps on the upstream element is linked with
\* gst_element_link_filtered, and that caps is released exactly once in the
\* call, whether the engine accepts the link or rejects it; and every filtered
\* link attempt, whatever its result, is followed at once by the one release
\* of its caps.
C11_FilterReleasedOncePerLink ==
    [][(nlink' # nlink /\ last'.op = "linkElementsByName") =>
          /\ \A k \in 1..Len(LinkAttempts') :
                LET c == m_pipeline_map[last'.names[k]].second
                IN (c # NULL /\ capsObjs[c].live) =>
                      /\ LinkAttempts'[k].fn = "gst_element_link_filtered"
                      /\ LinkAttempts'[k].c = c
                      /\ Releases(last'.calls, c) = 1
                      /\ capsObjs'[c].unrefs = capsObjs[c].unrefs + 1
                      /\ ~capsObjs'[c].live
          /\ \A k \in 1..Len(last'.calls) :
                last'.calls[k].fn = "gst_element_link_filtered" =>
                      /\ k < Len(last'.calls)
                      /\ last'.calls[k + 1].fn = "gst_caps_unref"
                      /\ last'.calls[k + 1].c = last'.calls[k].c
                      /\ Releases(last'.calls, last'.calls[k].c) = 1]_vars

\* a filtered link the engine rejected, its caps released once all the same
C11_Witness ==
    /\ last.op = "linkElementsByName"
    /\ \E k \in 1..Len(last.calls) :
          /\ last.calls[k].fn = "gst_element_link_filtered"
          /\ ~last.calls[k].ok
          /\ capsObjs[last.calls[k].c].unrefs = 1
          /\ ~capsObjs[last.calls[k].c].live

\* the names runSimplePipeline has given to addElement so far
RunCreated == {n \in RunNames : issued[n] > 0}

\* C12: in runSimplePipeline each addElement call is for the next name of
\* lines 309-316 and comes before the link call; the one linkElementsByName
\* call, over the names of line 322, comes after all eight creates; the
\* pad-added connection comes after the link call; the request for PLAYING
\* comes after all of them and the main loop is entered only after that
\* request; no create, link or connection is made once PLAYING was requested.
C12_SetupPrecedesPlaying ==
    [][/\ \A n \in RunNames :
             issued'[n] # issued[n] =>
                 /\ issued[n] = 0 /\ issued'[n] = 1
                 /\ n = AddScript[Cardinality(RunCreated) + 1].name
                 /\ nlink = 0 /\ signals = <<>>
                 /\ ~playRequested /\ ~loopRunning
       /\ nlink' # nlink =>
             /\ RunCreated = RunNames /\ nlink = 0
             /\ last'.names = LinkScript
             /\ last.op = "setElementProperty"
             /\ ~playRequested /\ ~loopRunning
       /\ (last'.op = "setElementSignal" /\ last.op # "setElementSignal") =>
             /\ nlink = 1 /\ last.op = "linkElementsByName"
             /\ ~playRequested /\ ~loopRunning
       /\ (playRequested' /\ ~playRequested) =>
             /\ RunCreated = RunNames /\ nlink = 1
             /\ last.op = "setElementSignal"
             /\ last'.op = "setPipelineState" /\ last'.names = <<"PLAYING">>
             /\ ~loopRunning
       /\ (loopRunning' /\ ~loopRunning) => playRequested]_vars

\* the whole program has run: eight creates, the link call, the connection,
\* the PLAYING request, and the main loop entered
C12_Witness ==
    /\ loopRunning /\ playRequested
    /\ RunCreated = RunNames /\ nlink = 1 /\ Len(signals) = 1
    /\ pipeState = "PLAYING"

\* C13: a setElementProperty, setElementSignal or setElementState call whose
\* name is not in the registry returns false, makes no engine call, and leaves
\* the registry and the engine as they were.
C13_UnknownNameIsRejected ==
    [][(/\ last' # last
        /\ last'.op \in {"setElementProperty", "setElementSignal", "setElementState"}
        /\ last'.name \notin DOMAIN m_pipeline_map) =>
           /\ ~last'.ret
           /\ last'.calls = <<>>
           /\ m_pipeline_map' = m_pipeline_map
           /\ UNCHANGED engine]_vars

\* setElementState was refused for a name that is not registered while
\* another name is
C13_Witness ==
    /\ last.op = "setElementState"
    /\ last.name \notin DOMAIN m_pipeline_map
    /\ DOMAIN m_pipeline_map # {}
    /\ ~last.ret /\ last.calls = <<>>

\* an addElement step (either overload) for a name the registry holds
RecreateStep(n) == issued'[n] # issued[n] /\ n \in DOMAIN m_pipeline_map

StateCall ==
    \/ last.op = "setPipelineState"
    \/ last.op = "setElementState" /\ last.name \in DOMAIN m_pipeline_map

\* C15: such a call makes exactly one gst_element_set_state request and
\* makes no other engine call; it returns false when the engine answers
\* FAILURE and true when it answers SUCCESS or ASYNC.
C15_StateChangeReportedOnce ==
    StateCall =>
        /\ Len(last.calls) = 1
        /\ last.calls[1].fn = "gst_element_set_state"
        /\ last.calls[1].b \in StateChangeReturns
        /\ last.ret <=> last.calls[1].b # "FAILURE"

\* the engine accepted a pipeline transition that completes asynchronously
\* and the call returned true
C15_Witness ==
    /\ last.op = "setPipelineState"
    /\ last.calls[1].b = "ASYNC"
    /\ last.ret
    /\ pipeState = "PLAYING"

\* C17: a linkElementsByName step over no name or over one name returns true,
\* makes no engine call (no link attempt, no release of a caps), and leaves
\* the caps and the links as they were, whether or not the name is
\* registered and whether or not its entry has a caps.
C17_ShortSequenceSucceeds ==
    [][(nlink' # nlink /\ last'.op = "linkElementsByName" /\ Len(last'.names) <= 1) =>
          /\ last'.ret
          /\ last'.calls = <<>>
          /\ capsObjs' = capsObjs
          /\ links' = links
          /\ m_pipeline_map' = m_pipeline_map]_vars

\* a one-name call for a name that is not registered returned true
C17_Witness ==
    /\ last.op = "linkElementsByName"
    /\ Len(last.names) = 1
    /\ last.names[1] \notin DOMAIN m_pipeline_map
    /\ last.ret /\ last.calls = <<>>

\* the step is an addElement call (either overload) for name n in which the
\* engine made and attached an element (and parsed the caps, if one was given)
CreatedStep(n) ==
    /\ issued'[n] = issued[n] + 1
    /\ last'.op \in {"addElement", "addElementCaps"}
    /\ last'.name = n
    /\ last'.elem # NULL
    /\ createdAs'[n] = last'.elem
    /\ last'.op = "addElement" => last'.ret

\* C18: the registry changes only in an addElement step in which the engine
\* made and attached the element, and then only at the name given, which now
\* maps to the new element; every other step (a refused create, lookup,
\* setElementProperty, setElementSignal, setElementState, setPipelineState,
\* linkElementsByName, runMainLoop, onPadAdded) leaves the registry as it
\* was; no name ever leaves the registry.
C18_OnlyCreateChangesRegistry ==
    [][/\ DOMAIN m_pipeline_map \subseteq DOMAIN m_pipeline_map'
       /\ m_pipeline_map' # m_pipeline_map =>
             \E n \in AllNames :
                 /\ CreatedStep(n)
                 /\ DOMAIN m_pipeline_map' = DOMAIN m_pipeline_map \cup {n}
                 /\ m_pipeline_map'[n] = gstream_pair(last'.elem, last'.caps)
                 /\ \A o \in DOMAIN m_pipeline_map \ {n} :
                       m_pipeline_map'[o] = m_pipeline_map[o]
       /\ last'.op \notin {"addElement", "addElementCaps"} =>
             m_pipeline_map' = m_pipeline_map]_vars

\* after a link call and a pad linked by the callback, the registry holds
\* each of the three stages as the engine created it
C18_Witness ==
    /\ DOMAIN m_pipeline_map = Names
    /\ \A n \in Names : m_pipeline_map[n].first = createdAs[n]
    /\ \E i \in 1..Len(cbLog) : cbLog[i].linked
    /\ nlink > 0

\* the pairs of a name list that have a name the registry does not hold
UnknownPairs(names) ==
    {i \in 1..(Len(names) - 1) :
        names[i] \notin DOMAIN m_pipeline_map \/ names[i + 1] \notin DOMAIN m_pipeline_map}

\* C19: a linkElement call given an element or a child that is null or dead
\* returns false, makes no engine call and leaves caps and links as they
\* were.  A linkElementsByName call over a list with an unknown name returns
\* false; it makes no link attempt for the first pair with an unknown name
\* nor for any later pair, every engine call it makes belongs to an earlier
\* pair, and the caps of that pair's upstream name, when it is registered,
\* is left as it was.
C19_InvalidPairIsNotLinked ==
    [][(nlink' # nlink) =>
          /\ (/\ last'.op = "linkElement"
              /\ \/ ~GST_IS_ELEMENT(elements, last'.elem)
                 \/ ~GST_IS_ELEMENT(elements, last'.child)) =>
                 /\ ~last'.ret
                 /\ last'.calls = <<>>
                 /\ capsObjs' = capsObjs
                 /\ links' = links
          /\ (last'.op = "linkElementsByName" /\ UnknownPairs(last'.names) # {}) =>
                 LET names == last'.names
                     i == CHOOSE u \in UnknownPairs(names) :
                              \A v \in UnknownPairs(names) : u <= v
                 IN /\ ~last'.ret
                    /\ Len(LinkAttempts') <= i - 1
                    /\ i = 1 => (last'.calls = <<>> /\ links' = links)
                    /\ names[i] \in DOMAIN m_pipeline_map =>
                          LET c == m_pipeline_map[names[i]].second
                          IN c # NULL =>
                                /\ capsObjs'[c] = capsObjs[c]
                                /\ Releases(last'.calls, c) = 0]_vars

\* linkElementsByName({"decode", "sink"}) with decode registered with a live
\* caps and sink not registered: false, and the caps never used or released
C19_Witness ==
    /\ last.op = "linkElementsByName"
    /\ last.names = <<"decode", "sink">>
    /\ "decode" \in DOMAIN m_pipeline_map
    /\ "sink" \notin DOMAIN m_pipeline_map
    /\ m_pipeline_map["decode"].second # NULL
    /\ capsObjs[m_pipeline_map["decode"].second].live
    /\ capsObjs[m_pipeline_map["decode"].second].uses = 0
    /\ ~last.ret /\ last.calls = <<>>

\* the gst_caps_unref and gst_element_link_filtered calls that name caps c
Touches(calls, c) ==
    {k \in 1..Len(calls) : calls[k].c = c}

\* C20: in a linkElementsByName step the k-th link attempt is given the caps
\* stored with names[k], the upstream name (a plain link when it stores
\* none or a released one), and never the caps stored with names[k+1]; the
\* caps stored with the last name of the list is named in no engine call of
\* the step and is left as it was.
C20_UpstreamFilterApplies ==
    [][(nlink' # nlink /\ last'.op = "linkElementsByName"
        /\ Len(last'.names) >= 2 /\ Registered(last'.names)) =>
          LET names == last'.names
              final == m_pipeline_map[names[Len(names)]].second
          IN /\ \A k \in 1..Len(LinkAttempts') :
                   LET up == m_pipeline_map[names[k]].second
                       down == m_pipeline_map[names[k + 1]].second
                   IN /\ LinkAttempts'[k].c \in {NULL, up}
                      /\ (up # NULL /\ capsObjs[up].live) => LinkAttempts'[k].c = up
                      /\ down # NULL => LinkAttempts'[k].c # down
             /\ final # NULL =>
                   /\ Touches(last'.calls, final) = {}
                   /\ capsObjs'[final] = capsObjs[final]]_vars

\* linkElementsByName({"src", "decode"}) linked the pair plainly and returned
\* true while the caps stored with decode, the last name, is live and unused
C20_Witness ==
    /\ last.op = "linkElementsByName"
    /\ last.names = <<"src", "decode">>
    /\ Registered(last.names)
    /\ last.ret
    /\ Len(LinkAttempts) = 1
    /\ LinkAttempts[1].fn = "gst_element_link"
    /\ m_pipeline_map["decode"].second # NULL
    /\ capsObjs[m_pipeline_map["decode"].second].live
    /\ capsObjs[m_pipeline_map["decode"].second].uses = 0
====
